---- MODULE Spec2Model ----
(***************************************************************************)
(* Model of the sum-of-squares benchmark harness.                          *)
(*                                                                         *)
(*   src/benches/bench.rs : the size sweeps (compare_data_structures,      *)
(*                          measure_all_sizes,                             *)
(*                          measure_all_containers_by_sizes), the two      *)
(*                          measurement drivers (measure_sum_of_squares,   *)
(*                          bench_in_group_with_input) and the data        *)
(*                          generator create_scrambled_data.               *)
(*   src/src/lib.rs       : the reduction kernels sum_of_squares_by_move   *)
(*                          and sum_of_squares_by_ref.                     *)
(*                                                                         *)
(* Three specifications share the variables:                               *)
(*   SpecSweep / FairSweep : one call of a sweep function, size by size.   *)
(*   SpecCell              : one measurement cell, trial by trial.         *)
(*   SpecKernel            : the kernels on bounded inputs.                *)
(*                                                                         *)
(* A float value is modelled by an integer: small integers are exactly     *)
(* representable in f64 and their squares and sums are exact.              *)
(***************************************************************************)
EXTENDS Integers, Sequences, FiniteSets, TLC

VARIABLES
    \* ---- size sweep (bench.rs 60-92, 133-158, 201-238)
    pc,                 \* "Idle" | "Loop" | "Cells" | "Done"
    fn,                 \* the sweep function that was called
    elem,               \* measure_all_sizes' type parameter T ("-" otherwise)
    start_pow2, end_pow2, step_pow2,
    input_size_bytes,   \* the loop variable
    data_len,           \* element count of the current size
    groups,             \* benchmark groups created so far
    finished,           \* benchmark groups finished so far
    visited,            \* log: <<byte budget, element count>> per loop body entered
    cells,              \* log: cells run at the current size
    \* ---- one measurement cell (bench.rs 161-199)
    cpc,                \* "Caller" | "Setup" | "Timed" | "End" ("-" outside SpecCell)
    driver,             \* measure_sum_of_squares | bench_in_group_with_input
    kind,               \* container kind of the cell / of the kernel input
    n,                  \* data_len of the cell
    input,              \* the container the closure of measure_sum_of_squares owns
    input0,             \* ghost: input as it was handed to measure_sum_of_squares
    batch,              \* containers built by setup, waiting for the timed routine
    next_id,            \* ghost: identity of the next container built
    ops,                \* log: <<operation, region>>
    seen,               \* log: <<container id, items>> per timed routine call
    \* ---- kernels (lib.rs 46-73)
    kpc,                \* "Input" | "Built" | "Moved" ("-" outside SpecKernel)
    values,             \* the sequence the container is collected from
    coll,               \* the container
    coll0,              \* ghost: the container as collected
    res_move, res_ref   \* last results of the two kernels (None before)

sweepVars  == <<pc, fn, elem, start_pow2, end_pow2, step_pow2, input_size_bytes,
                data_len, groups, finished, visited, cells>>
cellVars   == <<cpc, driver, n, input, input0, batch, next_id, ops, seen>>
kernelVars == <<kpc, values, coll, coll0, res_move, res_ref>>
vars       == <<sweepVars, cellVars, kind, kernelVars>>

otherVars  == <<cellVars, kind, kernelVars>>

\* An optional value: none, or one value.
None == <<>>
Some(x) == <<x>>
The(opt) == opt[1]

----------------------------------------------------------------------------
(* Bounds of the model. *)

\* powers handed to a sweep are drawn from 0..MaxPow
MaxPow == 12
\* the visited log keeps at most this many entries (a sweep with step >= 1 and
\* powers <= MaxPow enters its body at most MaxPow + 1 times)
MaxVisited == MaxPow + 2

\* a cell's element count is drawn from 0..MaxLen
MaxLen == 2
\* the generator draws each value from the MaxSample + 1 samples 0..MaxSample
MaxSample == 1
\* the measurement engine builds at most MaxBatch inputs before it times them
MaxBatch == 2
\* the measurement engine runs MaxTrials trials per cell
MaxTrials == 2
\* kernel inputs: sequences of at most MaxInputLen values from -1..MaxVal
MaxInputLen == 3
MaxVal == 4

\* Configured powers of the benchmark entry points.
START_POW == 10
END_POW == 26
STEP_POW == 2

\* std::mem::size_of::<f64>()
SizeOfF64 == 8

----------------------------------------------------------------------------
(* The container catalog. *)

Kinds == {"Vec", "VecDeque", "LinkedList", "HashSet", "BTreeSet"}
\* the order in which the sweeps go through the kinds
KindOrder == <<"Vec", "VecDeque", "LinkedList", "HashSet", "BTreeSet">>
Modes == {"move", "ref"}

\* 2u32.pow(p) as usize, for p < 32 (no wrap below 2^32)
pow2(p) == 2 ^ p

----------------------------------------------------------------------------
(* Values and containers. *)

\* FloatOrd<f64> is a one-field tuple struct around the raw f64.
create(x) == <<x>>
inner(v) == v[1]

Range(seq) == {seq[i] : i \in DOMAIN seq}

\* All orders in which the elements of a set can be iterated.
Orders(S) == {f \in [1..Cardinality(S) -> S] : \A i, j \in DOMAIN f : f[i] = f[j] => i = j}

\* The elements of a set in ascending order of the wrapped value.
Ascending(S) == CHOOSE f \in Orders(S) : \A i, j \in DOMAIN f : i < j => inner(f[i]) < inner(f[j])

SeqKinds == {"Vec", "VecDeque", "LinkedList"}

\* A faulty collect: the sets keep duplicates too.
from_iter_keep_duplicates(k, seq) == {seq}

\* .collect() into kind k (T: FromIterator<FloatOrd<f64>>): the possible
\* iteration orders of the container built from seq. The sequence kinds keep
\* every element in insertion order; the sets keep one element per equal value,
\* the BTreeSet in ascending order, the HashSet in an order that depends on the
\* set's random hasher state.
from_iter(k, seq) ==
    CASE k \in SeqKinds -> {seq}
      [] k = "BTreeSet" -> {Ascending(Range(seq))}
      [] k = "HashSet"  -> Orders(Range(seq))

\* create_scrambled_data::<T>(len): len values FloatOrd(rng.gen()), collected.
create_scrambled_data(k, len) ==
    UNION {from_iter(k, [i \in 1..len |-> create(draw[i])]) :
              draw \in [1..len -> 0..MaxSample]}

\* A faulty copy: the first element is lost.
clone_drops_first(k, items) == {IF items = <<>> THEN items ELSE Tail(items)}

\* T::clone(): the same elements; a sequence or a BTreeSet iterates them in the
\* same order, for a HashSet no order is promised.
clone(k, items) ==
    IF k = "HashSet" THEN Orders(Range(items)) ELSE {items}

----------------------------------------------------------------------------
(* The reduction kernels (lib.rs). *)

\* A faulty power: x * e instead of x^e.
powi_linear(x, e) == x * e

RECURSIVE powi(_, _)
\* f64::powi(x, e) for e >= 0
powi(x, e) == IF e = 0 THEN 1 ELSE x * powi(x, e - 1)

RECURSIVE sum(_)
\* Iterator::sum::<f64>(): fold by addition from zero, in iteration order
sum(seq) == IF seq = <<>> THEN 0 ELSE sum(SubSeq(seq, 1, Len(seq) - 1)) + seq[Len(seq)]

\* A faulty kernel: the values are summed without being squared.
sum_without_squaring(items) == sum([i \in DOMAIN items |-> inner(items[i])])

\* collection.into_iter().map(|x| x.inner().powi(2)).sum::<f64>()
sum_of_squares_by_move(items) ==
    sum([i \in DOMAIN items |-> powi(inner(items[i]), 2)])

\* the same over (&collection).into_iter()
sum_of_squares_by_ref(items) ==
    sum([i \in DOMAIN items |-> powi(inner(items[i]), 2)])

----------------------------------------------------------------------------
(* The size sweeps. *)

SweepFns == {"compare_data_structures", "measure_all_sizes",
             "measure_all_containers_by_sizes"}

\* Whether the function opens one group before its loop (bench.rs 142, 202)
\* or one per size inside the loop (bench.rs 69).
GroupBeforeLoop(f) == f \in {"compare_data_structures", "measure_all_sizes"}

\* The ownership mode of the timed call: both drivers hand the container to
\* sum_of_squares by value (bench.rs 172, 194, 253).
DriverMode == "move"

\* The cells one loop body runs, in order: <<kind, mode, driver>>.
\*   compare_data_structures          217-232: bench_in_group_with_input per kind
\*   measure_all_containers_by_sizes  74-87:   measure_sum_of_squares per kind
\*   measure_all_sizes<T>             151-153: measure_sum_of_squares for T
CellPlan(f, T) ==
    CASE f = "compare_data_structures" ->
            [i \in 1..5 |-> <<KindOrder[i], DriverMode, "bench_in_group_with_input">>]
      [] f = "measure_all_containers_by_sizes" ->
            [i \in 1..5 |-> <<KindOrder[i], DriverMode, "measure_sum_of_squares">>]
      [] f = "measure_all_sizes" ->
            <<  <<T, DriverMode, "measure_sum_of_squares">>  >>

\* let mut input_size_bytes = 2u32.pow(start_pow2) as usize;
FirstSize(s) == pow2(s)

\* while input_size_bytes <= 2u32.pow(end_pow2) as usize
LoopCond(size, e) == size <= pow2(e)

\* let data_len = input_size_bytes / std::mem::size_of::<f64>();
DataLen(size) == size \div SizeOfF64

\* A faulty step: the size is doubled whatever step_pow2 is.
NextSize_doubles(size, st) == size * 2

\* input_size_bytes *= 2u32.pow(step_pow2) as usize;
NextSize(size, st) == size * pow2(st)

\* The logs and counters of the model stop growing at MaxVisited, so that a
\* sweep that never ends is a cycle of finitely many states.
Log(log, entry) == IF Len(log) < MaxVisited THEN Append(log, entry) ELSE log
Count(c) == IF c < MaxVisited THEN c + 1 ELSE c

\* A sweep function is called with (s, e, st); T is measure_all_sizes' kind.
Call(f, T, s, e, st) ==
    /\ pc = "Idle"
    /\ pc' = "Loop"
    /\ fn' = f
    /\ elem' = T
    /\ start_pow2' = s
    /\ end_pow2' = e
    /\ step_pow2' = st
    /\ groups' = IF GroupBeforeLoop(f) THEN Count(groups) ELSE groups
    /\ input_size_bytes' = FirstSize(s)
    /\ UNCHANGED <<data_len, finished, visited, cells, otherVars>>

\* bench_data_structures / bench_all_by_size / bench_by_container (bench.rs 35-45)
\* call the sweeps with the configured powers.
CallConfigured ==
    /\ pc = "Idle"
    /\ \E f \in SweepFns : \E T \in IF f = "measure_all_sizes" THEN Kinds ELSE {"-"} :
          Call(f, T, START_POW, END_POW, STEP_POW)

\* The sweeps called with any powers in 0..MaxPow.
CallAny ==
    /\ pc = "Idle"
    /\ \E f \in SweepFns : \E T \in IF f = "measure_all_sizes" THEN Kinds ELSE {"-"} :
          \E s, e, st \in 0..MaxPow : Call(f, T, s, e, st)

\* The loop condition holds: the body starts (group per size, throughput,
\* data_len).
LoopEnter ==
    /\ pc = "Loop"
    /\ LoopCond(input_size_bytes, end_pow2)
    /\ pc' = "Cells"
    /\ data_len' = DataLen(input_size_bytes)
    /\ visited' = Log(visited, <<input_size_bytes, DataLen(input_size_bytes)>>)
    /\ groups' = IF GroupBeforeLoop(fn) THEN groups ELSE Count(groups)
    /\ cells' = <<>>
    /\ UNCHANGED <<fn, elem, start_pow2, end_pow2, step_pow2, input_size_bytes,
                   finished, otherVars>>

\* The next cell of the body is measured.
RunCell ==
    /\ pc = "Cells"
    /\ Len(cells) < Len(CellPlan(fn, elem))
    /\ cells' = Append(cells, CellPlan(fn, elem)[Len(cells) + 1])
    /\ UNCHANGED <<pc, fn, elem, start_pow2, end_pow2, step_pow2, input_size_bytes,
                   data_len, groups, finished, visited, otherVars>>

\* The body ends: (group.finish() of the per-size group,) the size is multiplied.
Advance ==
    /\ pc = "Cells"
    /\ Len(cells) = Len(CellPlan(fn, elem))
    /\ pc' = "Loop"
    /\ input_size_bytes' = NextSize(input_size_bytes, step_pow2)
    /\ finished' = IF GroupBeforeLoop(fn) THEN finished ELSE Count(finished)
    /\ UNCHANGED <<fn, elem, start_pow2, end_pow2, step_pow2, data_len, groups,
                   visited, cells, otherVars>>

\* The loop condition fails: group.finish() of the group opened before the
\* loop, and the function returns.
LoopExit ==
    /\ pc = "Loop"
    /\ ~LoopCond(input_size_bytes, end_pow2)
    /\ pc' = "Done"
    /\ finished' = IF GroupBeforeLoop(fn) THEN Count(finished) ELSE finished
    /\ UNCHANGED <<fn, elem, start_pow2, end_pow2, step_pow2, input_size_bytes,
                   data_len, groups, visited, cells, otherVars>>

InitSweepVars ==
    /\ pc = "Idle"
    /\ fn = "-"
    /\ elem = "-"
    /\ start_pow2 = 0
    /\ end_pow2 = 0
    /\ step_pow2 = 0
    /\ input_size_bytes = 0
    /\ data_len = 0
    /\ groups = 0
    /\ finished = 0
    /\ visited = <<>>
    /\ cells = <<>>

IdleCellVars ==
    /\ cpc = "-"
    /\ driver = "-"
    /\ n = 0
    /\ input = None
    /\ input0 = None
    /\ batch = <<>>
    /\ next_id = 0
    /\ ops = <<>>
    /\ seen = <<>>

IdleKernelVars ==
    /\ kpc = "-"
    /\ values = <<>>
    /\ coll = None
    /\ coll0 = None
    /\ res_move = None
    /\ res_ref = None

InitSweep == InitSweepVars /\ IdleCellVars /\ IdleKernelVars /\ kind = "-"

NextSweep == CallConfigured \/ CallAny \/ LoopEnter \/ RunCell \/ Advance \/ LoopExit

SpecSweep == InitSweep /\ [][NextSweep]_vars

\* The harness is one sequential thread: a step that can be taken is taken.
FairSweep == InitSweep /\ [][NextSweep]_vars /\ WF_vars(NextSweep)

----------------------------------------------------------------------------
(* One measurement cell: a driver and the trials the measurement engine runs. *)
(* The engine (b.iter_batched with BatchSize::LargeInput) calls the setup     *)
(* closure for every input of a batch outside the timed region, then times    *)
(* the routine closure on each of them.                                       *)

Drivers == {"measure_sum_of_squares", "bench_in_group_with_input"}

cellFrame == <<sweepVars, kernelVars>>

\* A faulty routine closure: the input is generated inside the timed closure.
RoutineOps_generates(d) == <<"create_scrambled_data", "sum_of_squares">>

\* What each closure calls.
\*   measure_sum_of_squares    setup || input.clone()                 (169)
\*   bench_in_group_with_input setup || create_scrambled_data::<T>(n) (193)
\*   both                      routine |data| sum_of_squares(black_box(data))
SetupOps(d) ==
    IF d = "measure_sum_of_squares" THEN <<"clone">> ELSE <<"create_scrambled_data">>

RoutineOps(d) == <<"sum_of_squares">>

\* The container a setup closure returns.
SetupResult(d, k, len, owned) ==
    IF d = "measure_sum_of_squares"
    THEN clone(k, The(owned).items)
    ELSE create_scrambled_data(k, len)

Logged(log, names, region, id) ==
    log \o [i \in DOMAIN names |-> <<names[i], region, id>>]

\* The callers of measure_sum_of_squares generate the input and hand it over
\* (bench.rs 53-55, 74-87, 151-153); the closure given to bench_function owns it.
Generate ==
    /\ cpc = "Caller"
    /\ driver = "measure_sum_of_squares"
    /\ \E items \in create_scrambled_data(kind, n) :
          /\ input' = Some([id |-> next_id, items |-> items])
          /\ input0' = Some([id |-> next_id, items |-> items])
    /\ ops' = Logged(ops, <<"create_scrambled_data">>, "outside", next_id)
    /\ next_id' = next_id + 1
    /\ cpc' = "Setup"
    /\ UNCHANGED <<driver, kind, n, batch, seen, cellFrame>>

\* bench_in_group_with_input hands only data_len to the engine (bench.rs 188-191).
EnterBench ==
    /\ cpc = "Caller"
    /\ driver = "bench_in_group_with_input"
    /\ cpc' = "Setup"
    /\ UNCHANGED <<driver, kind, n, input, input0, batch, next_id, ops, seen, cellFrame>>

\* The engine calls the setup closure for one more input of the batch.
Setup ==
    /\ cpc = "Setup"
    /\ Len(batch) < MaxBatch
    /\ next_id - (IF input = None THEN 0 ELSE 1) < MaxTrials
    /\ \E items \in SetupResult(driver, kind, n, input) :
          batch' = Append(batch, [id |-> next_id, items |-> items])
    /\ ops' = Logged(ops, SetupOps(driver), "setup", next_id)
    /\ next_id' = next_id + 1
    /\ UNCHANGED <<cpc, driver, kind, n, input, input0, seen, cellFrame>>

\* The engine starts its timer.
StartTiming ==
    /\ cpc = "Setup"
    /\ batch # <<>>
    /\ cpc' = "Timed"
    /\ UNCHANGED <<driver, kind, n, input, input0, batch, next_id, ops, seen, cellFrame>>

\* The engine calls the routine closure on the next input, which the closure
\* hands to sum_of_squares by value.
Routine ==
    /\ cpc = "Timed"
    /\ batch # <<>>
    /\ seen' = Append(seen, Head(batch))
    /\ batch' = Tail(batch)
    /\ ops' = Logged(ops, RoutineOps(driver), "timed", Head(batch).id)
    /\ UNCHANGED <<cpc, driver, kind, n, input, input0, next_id, cellFrame>>

\* The engine stops its timer: another batch follows, or the cell ends.
StopTiming ==
    /\ cpc = "Timed"
    /\ batch = <<>>
    /\ cpc' = IF Len(seen) < MaxTrials THEN "Setup" ELSE "End"
    /\ UNCHANGED <<driver, kind, n, input, input0, batch, next_id, ops, seen, cellFrame>>

InitCell ==
    /\ InitSweepVars
    /\ IdleKernelVars
    /\ cpc = "Caller"
    /\ driver \in Drivers
    /\ kind \in Kinds
    /\ n \in 0..MaxLen
    /\ input = None
    /\ input0 = None
    /\ batch = <<>>
    /\ next_id = 0
    /\ ops = <<>>
    /\ seen = <<>>

NextCell == Generate \/ EnterBench \/ Setup \/ StartTiming \/ Routine \/ StopTiming

SpecCell == InitCell /\ [][NextCell]_vars

----------------------------------------------------------------------------
(* The kernels on one input: the container is collected from the input,     *)
(* borrowed by sum_of_squares_by_ref any number of times and consumed by    *)
(* sum_of_squares_by_move; a consumed container can be collected again from *)
(* the same input.                                                          *)

Values == -1..MaxVal

Inputs == UNION {[1..len -> {create(x) : x \in Values}] : len \in 0..MaxInputLen}

kernelFrame == <<sweepVars, cellVars>>

Collect ==
    /\ kpc \in {"Input", "Moved"}
    /\ \E items \in from_iter(kind, values) :
          /\ coll' = Some([kind |-> kind, items |-> items])
          /\ coll0' = Some([kind |-> kind, items |-> items])
    /\ kpc' = "Built"
    /\ UNCHANGED <<kind, values, res_move, res_ref, kernelFrame>>

\* sum_of_squares_by_ref(&coll): the container stays with the caller.
ByRef ==
    /\ kpc = "Built"
    /\ res_ref' = Some(sum_of_squares_by_ref(The(coll).items))
    /\ UNCHANGED <<kpc, kind, values, coll, coll0, res_move, kernelFrame>>

\* sum_of_squares_by_move(coll): the container is moved into the call.
ByMove ==
    /\ kpc = "Built"
    /\ res_move' = Some(sum_of_squares_by_move(The(coll).items))
    /\ coll' = None
    /\ kpc' = "Moved"
    /\ UNCHANGED <<kind, values, coll0, res_ref, kernelFrame>>

InitKernel ==
    /\ InitSweepVars
    /\ IdleCellVars
    /\ kpc = "Input"
    /\ kind \in Kinds
    /\ values \in Inputs
    /\ coll = None
    /\ coll0 = None
    /\ res_move = None
    /\ res_ref = None

NextKernel == Collect \/ ByRef \/ ByMove

SpecKernel == InitKernel /\ [][NextKernel]_vars

----------------------------------------------------------------------------
(* Claims about the size sweeps. *)

ValidConfig == start_pow2 <= end_pow2 /\ step_pow2 >= 1

\* The sizes a sweep from s to e by st has to visit:
\* <<2^(s + k*st), 2^(s + k*st) / 8>> for k = 0, 1, ... while s + k*st <= e.
ExpectedVisits(s, e, st) ==
    [k \in 1..((e - s) \div st + 1) |->
        <<2 ^ (s + (k - 1) * st), (2 ^ (s + (k - 1) * st)) \div 8>>]

IsPrefix(a, b) == Len(a) <= Len(b) /\ \A i \in 1..Len(a) : a[i] = b[i]

\* C1: with start_pow2 <= end_pow2 and step_pow2 >= 1 every sweep function
\* visits exactly the byte budgets 2^(start + k*step) <= 2^end, in strictly
\* increasing order, none skipped or repeated, each with element count
\* budget / 8: the visits so far are a prefix of that list, the body runs at
\* the last visited size, and at Done the list is complete.
C1_SweepVisitsExpectedSizes ==
    (pc # "Idle" /\ ValidConfig) =>
        LET want == ExpectedVisits(start_pow2, end_pow2, step_pow2) IN
        /\ IsPrefix(visited, want)
        /\ \A i, j \in 1..Len(visited) : i < j => visited[i][1] < visited[j][1]
        /\ pc = "Cells" => /\ visited # <<>>
                           /\ visited[Len(visited)] = <<input_size_bytes, data_len>>
        /\ pc = "Done" => visited = want

\* The spec's scenario: start 10, end 12, step 1 visits 1024, 2048, 4096 with
\* 128, 256, 512 elements.
C1_Witness ==
    /\ pc = "Done"
    /\ fn = "compare_data_structures"
    /\ <<start_pow2, end_pow2, step_pow2>> = <<10, 12, 1>>
    /\ visited = << <<1024, 128>>, <<2048, 256>>, <<4096, 512>> >>

\* C2: a sweep called with step_pow2 = 0 and start_pow2 <= end_pow2 eventually
\* reaches Done.
C2_StepZeroTerminates ==
    [](  (pc # "Idle" /\ step_pow2 = 0 /\ start_pow2 <= end_pow2)
         => <>(pc = "Done")  )

\* C3: a sweep called with step_pow2 = 0 or start_pow2 > end_pow2 is refused
\* with a configuration error before any group is created or any size is
\* visited.
C3_InvalidConfigRejected ==
    (pc # "Idle" /\ (step_pow2 = 0 \/ start_pow2 > end_pow2)) =>
        /\ pc = "ConfigError"
        /\ groups = 0
        /\ visited = <<>>
        /\ cells = <<>>

PairsOf(cs) == {<<cs[i][1], cs[i][2]>> : i \in 1..Len(cs)}

\* C4: when compare_data_structures leaves a size, it has run exactly one
\* cell for each of the 10 (kind, mode) pairs at that size.
C4_AllPairsOncePerSize ==
    (fn = "compare_data_structures" /\ pc \in {"Loop", "Done"} /\ visited # <<>>) =>
        /\ PairsOf(cells) = Kinds \X Modes
        /\ Len(cells) = 10

----------------------------------------------------------------------------
(* Claims about a measurement cell. *)

OpsIn(region) == {i \in DOMAIN ops : ops[i][2] = region}

\* C5: the data generator and the container copy never run in the timed
\* region, the timed region holds only sum_of_squares calls, each on a
\* container whose setup ran (and ended) earlier, and no setup runs while the
\* timer is on.
C5_SetupOutsideTimedRegion ==
    /\ \A i \in DOMAIN ops :
          ops[i][1] \in {"create_scrambled_data", "clone"} => ops[i][2] # "timed"
    /\ \A i \in OpsIn("timed") :
          /\ ops[i][1] = "sum_of_squares"
          /\ \E j \in OpsIn("setup") : j < i /\ ops[j][3] = ops[i][3]
    /\ cpc = "Timed" => ~ENABLED Setup

C5_Witness ==
    /\ cpc = "End"
    /\ Len(seen) = MaxTrials
    /\ \E i \in OpsIn("setup") : ops[i][1] = "create_scrambled_data"
    /\ \E i \in OpsIn("timed") : ops[i][1] = "sum_of_squares"

\* The values of a container with their multiplicities.
BagOf(items) ==
    [v \in Range(items) |-> Cardinality({i \in DOMAIN items : items[i] = v})]

DistinctIds(cs) == \A i, j \in DOMAIN cs : cs[i].id = cs[j].id => i = j

\* No container is used by two trials: every container built has its own
\* identity, and one that was consumed is no longer waiting in the batch.
NoSharing ==
    /\ DistinctIds(seen \o batch)
    /\ input # None => \A i \in DOMAIN (seen \o batch) : (seen \o batch)[i].id # The(input).id

\* C6: one container is generated for the cell, all trials of the cell see
\* the same multiset of values, no trial's container is shared with another,
\* and the cell's template is unchanged by the trials.
C6_TrialsCopyOneTemplate ==
    /\ Cardinality({i \in DOMAIN ops : ops[i][1] = "create_scrambled_data"}) <= 1
    /\ \A i, j \in DOMAIN seen : BagOf(seen[i].items) = BagOf(seen[j].items)
    /\ NoSharing
    /\ input = input0

\* C6 as the code has it: every trial has a container of its own. In a cell
\* of measure_sum_of_squares it is a copy of the one container generated for
\* the cell, with the same multiset of values, and the template is unchanged;
\* in a cell of bench_in_group_with_input it is newly generated by the
\* trial's setup for the cell's element count.
C6_TrialsOwnFreshContainer ==
    /\ NoSharing
    /\ input = input0
    /\ driver = "measure_sum_of_squares" =>
          \A i \in DOMAIN (seen \o batch) :
              BagOf((seen \o batch)[i].items) = BagOf(The(input0).items)
    /\ driver = "bench_in_group_with_input" =>
          /\ input = None
          /\ \A i \in DOMAIN (seen \o batch) :
                (seen \o batch)[i].items \in create_scrambled_data(kind, n)

C6_Witness ==
    /\ cpc = "End"
    /\ driver = "measure_sum_of_squares"
    /\ kind = "HashSet"
    /\ Len(seen) = MaxTrials
    /\ Len(The(input).items) = 2

----------------------------------------------------------------------------
(* Claims about the kernels. *)

Copies(len, v) == [i \in 1..len |-> create(v)]

\* The sum over the elements, in iteration order, of inner(x) * inner(x).
RECURSIVE SquaresFrom(_, _)
SquaresFrom(items, i) ==
    IF i > Len(items) THEN 0
    ELSE inner(items[i]) * inner(items[i]) + SquaresFrom(items, i + 1)

C8_KernelIsSumOfSquares ==
    /\ res_move # None => The(res_move) = SquaresFrom(The(coll0).items, 1)
    /\ res_ref # None => The(res_ref) = SquaresFrom(The(coll0).items, 1)
    /\ kpc = "Built" => ENABLED ByMove /\ ENABLED ByRef
    /\ (coll0 # None /\ The(coll0).items = <<>>) =>
          res_move \in {None, Some(0)} /\ res_ref \in {None, Some(0)}
    /\ (kind = "Vec" /\ values = <<create(3), create(4)>> /\ res_move # None) =>
          The(res_move) = 25

C8_Witness ==
    /\ kind = "Vec"
    /\ values = <<create(3), create(4)>>
    /\ res_move = Some(25)
    /\ res_ref = Some(25)

\* C9: a container collected from len >= 1 copies of v reduces to len * v^2
\* for Vec, VecDeque and LinkedList and to v^2 for HashSet and BTreeSet; the
\* input [1, 1, 2] as a HashSet reduces to 5.
C9_DuplicatesByKind ==
    /\ \A len \in 1..Len(values) : \A v \in Values :
          (values = Copies(len, v) /\ res_move # None) =>
              The(res_move) = IF kind \in SeqKinds THEN len * v * v ELSE v * v
    /\ (kind = "HashSet" /\ values = <<create(1), create(1), create(2)>>
           /\ res_move # None) => The(res_move) = 5

C9_Witness ==
    /\ kind = "HashSet"
    /\ values = <<create(1), create(1), create(2)>>
    /\ res_move = Some(5)

====
